---------------------------- MODULE Spec2Model ----------------------------
(***************************************************************************)
(* Model of src/src/index.ts: class Optional<T>.                           *)
(*                                                                         *)
(* The state is the heap of Optional instances (each one readonly slot,    *)
(* `value`), the generator objects created by [Symbol.iterator], and the   *)
(* record of the last call: receiver, arguments, completion (return or     *)
(* throw) and the invocations of caller-supplied functions it made.        *)
(***************************************************************************)
EXTENDS Integers, Sequences, FiniteSets, TLC

\* ------------------------------------------------------------- bounds
MaxObjects == 3     \* objects alive: Optional instances and generator objects

\* ------------------------------------------------------------- JS values
\* Every JavaScript value is a record of one shape: its type tag, its
\* primitive content, and the heap index when it is an Optional reference.
Undefined == [tag |-> "undefined", s |-> "", ref |-> 0]
Null == [tag |-> "null", s |-> "", ref |-> 0]
Str(s) == [tag |-> "string", s |-> s, ref |-> 0]
Bool(b) == [tag |-> "boolean", s |-> IF b THEN "true" ELSE "false", ref |-> 0]
Ref(i) == [tag |-> "Optional", s |-> "", ref |-> i]
\* new Error(message)
Error(message) == [tag |-> "Error", s |-> message, ref |-> 0]
\* what the runtime throws when a non-callable is called
TypeError == [tag |-> "TypeError", s |-> "is not a function", ref |-> 0]

Strings == {"", "hello"}
\* the values a slot may hold: both absence markers, the falsy "" and others
Prims == {Undefined, Null} \cup {Str(s) : s \in Strings}
Refs(h) == {Ref(i) : i \in DOMAIN h}
\* JS truthiness, as the conditional operator of filter applies it
Truthy(v) == ~(v \in {Undefined, Null, Str(""), Bool(FALSE)})

\* ------------------------------------------------------------- callbacks
\* A caller-supplied function is a table from its argument to its result; a
\* call without arguments passes undefined.  The argument `undefined` in the
\* place of a function stands for "no function provided".
Fn(table) == [tag |-> "function", table |-> table]
Const(r) == Fn([a \in Prims |-> r])
\* an argument-dependent mapper: val => val === "hello" ? "" : "hello"
Swap == Fn([a \in Prims |-> IF a = Str("hello") THEN Str("") ELSE Str("hello")])
\* an argument-dependent predicate: val => val === "hello"
IsHello == Fn([a \in Prims |-> Bool(a = Str("hello"))])

Returning(R) == {Const(r) : r \in R} \cup {Undefined}

\* completion records
Return(v) == [type |-> "return", value |-> v]
Throw(v) == [type |-> "throw", value |-> v]

\* fn(arg): a TypeError when fn is not callable
Call(fn, arg) ==
    IF fn.tag = "function" THEN Return(fn.table[arg]) ELSE Throw(TypeError)

\* the outcome of a method: the heap after it, its completion, and the
\* invocations of supplied functions it made, in order
Outcome(h, completion, calls) ==
    [heap |-> h, type |-> completion.type, value |-> completion.value, calls |-> calls]

Invocation(fn, arg) == [fn |-> fn, arg |-> arg]

\* ------------------------------------------------------------- helpers
isNullOrUndefined_eqeq(value) == value = Undefined

isNullOrUndefined(value) == value = Undefined \/ value = Null

assertOn(condition, errorMessage) ==
    IF condition THEN Throw(Error(errorMessage)) ELSE Return(Undefined)

\* new Optional(value): allocates an instance whose slot is `value`
constructor(h, value) ==
    Outcome(Append(h, value), Return(Ref(Len(h) + 1)), <<>>)

\* ------------------------------------------------------------- factories
ofNullable(h, value) == constructor(h, value)

of(h, value) ==
    LET a == assertOn(isNullOrUndefined(value), "NullPointerException : value is not defined")
    IN IF a.type = "throw" THEN Outcome(h, a, <<>>) ELSE constructor(h, value)

empty(h) == constructor(h, Undefined)


\* ------------------------------------------------------------- queries
isEmpty(h, this) == isNullOrUndefined(h[this])

isPresent(h, this) == ~isEmpty(h, this)

get(h, this) ==
    LET a == assertOn(isEmpty(h, this), "Can not invoke get on Optional with null/undefined value")
    IN IF a.type = "throw" THEN Outcome(h, a, <<>>)
       ELSE Outcome(h, Return(h[this]), <<>>)

\* the invocation a call fn(arg) adds to the log: none when fn is not callable
Invoked(fn, arg) == IF fn.tag = "function" THEN <<Invocation(fn, arg)>> ELSE <<>>

\* ------------------------------------------------------------- inspection
\* ifPresent that rejects a missing consumer before the presence test
ifPresent_upfront(h, this, fn) ==
    LET g == assertOn(isNullOrUndefined(fn), "NullPointerException : value is not defined")
    IN IF g.type = "throw" THEN Outcome(h, g, <<>>)
       ELSE IF isPresent(h, this)
            THEN Outcome(h, Return(Undefined), Invoked(fn, h[this]))
            ELSE Outcome(h, Return(Undefined), <<>>)

ifPresent(h, this, fn) ==
    IF isPresent(h, this)
    THEN LET c == Call(fn, h[this])
         IN Outcome(h, IF c.type = "throw" THEN c ELSE Return(Undefined),
                    Invoked(fn, h[this]))
    ELSE Outcome(h, Return(Undefined), <<>>)

ifPresentOrElse(h, this, nonEmptyFn, emptyFn) ==
    IF isPresent(h, this)
    THEN LET c == Call(nonEmptyFn, h[this])
         IN Outcome(h, IF c.type = "throw" THEN c ELSE Return(Undefined),
                    Invoked(nonEmptyFn, h[this]))
    ELSE LET c == Call(emptyFn, Undefined)
         IN Outcome(h, IF c.type = "throw" THEN c ELSE Return(Undefined),
                    Invoked(emptyFn, Undefined))

\* ------------------------------------------------------------- transformations
\* filter that allocates a new empty Optional instead of returning `this`
filter_freshEmpty(h, this, fn) ==
    IF isEmpty(h, this)
    THEN constructor(h, Undefined)
    ELSE LET c == Call(fn, h[this])
         IN IF c.type = "throw" THEN Outcome(h, c, <<>>)
            ELSE LET n == constructor(h, IF Truthy(c.value) THEN h[this] ELSE Undefined)
                 IN Outcome(n.heap, Return(n.value), Invoked(fn, h[this]))

\* filter that clears the receiver's slot when the predicate fails
filter_inPlace(h, this, fn) ==
    IF isEmpty(h, this)
    THEN Outcome(h, Return(Ref(this)), <<>>)
    ELSE LET c == Call(fn, h[this])
         IN IF c.type = "throw" THEN Outcome(h, c, <<>>)
            ELSE IF Truthy(c.value)
                 THEN Outcome(h, Return(Ref(this)), Invoked(fn, h[this]))
                 ELSE Outcome([h EXCEPT ![this] = Undefined], Return(Ref(this)),
                              Invoked(fn, h[this]))

filter(h, this, fn) ==
    IF isEmpty(h, this)
    THEN Outcome(h, Return(Ref(this)), <<>>)
    ELSE LET c == Call(fn, h[this])
         IN IF c.type = "throw" THEN Outcome(h, c, <<>>)
            ELSE LET n == constructor(h, IF Truthy(c.value) THEN h[this] ELSE Undefined)
                 IN Outcome(n.heap, Return(n.value), Invoked(fn, h[this]))

\* map that builds its result with Optional.of, rejecting an absent result
map_requireNonNull(h, this, fn) ==
    IF isEmpty(h, this)
    THEN constructor(h, Undefined)
    ELSE LET c == Call(fn, h[this])
         IN IF c.type = "throw" THEN Outcome(h, c, <<>>)
            ELSE LET n == of(h, c.value)
                 IN Outcome(n.heap, [type |-> n.type, value |-> n.value],
                            Invoked(fn, h[this]))

map(h, this, fn) ==
    IF isEmpty(h, this)
    THEN constructor(h, Undefined)
    ELSE LET c == Call(fn, h[this])
         IN IF c.type = "throw" THEN Outcome(h, c, <<>>)
            ELSE LET n == constructor(h, c.value)
                 IN Outcome(n.heap, Return(n.value), Invoked(fn, h[this]))

\* flatMap that returns a copy of the container the mapper returned
flatMap_wrapped(h, this, fn) ==
    IF isEmpty(h, this)
    THEN constructor(h, Undefined)
    ELSE LET c == Call(fn, h[this])
         IN IF c.type = "throw" THEN Outcome(h, c, <<>>)
            ELSE LET a == assertOn(isNullOrUndefined(c.value),
                                   "Mapping function cannot return null/undefined value")
                 IN IF a.type = "throw" THEN Outcome(h, a, Invoked(fn, h[this]))
                    ELSE IF c.value.tag = "Optional"
                         THEN LET n == constructor(h, h[c.value.ref])
                              IN Outcome(n.heap, Return(n.value), Invoked(fn, h[this]))
                         ELSE Outcome(h, Return(c.value), Invoked(fn, h[this]))

flatMap(h, this, fn) ==
    IF isEmpty(h, this)
    THEN constructor(h, Undefined)
    ELSE LET c == Call(fn, h[this])
         IN IF c.type = "throw" THEN Outcome(h, c, <<>>)
            ELSE LET a == assertOn(isNullOrUndefined(c.value),
                                   "Mapping function cannot return null/undefined value")
                 IN Outcome(h, IF a.type = "throw" THEN a ELSE Return(c.value),
                            Invoked(fn, h[this]))

\* ------------------------------------------------------------- fallbacks
orElse(h, this, other) ==
    Outcome(h, Return(IF isPresent(h, this) THEN h[this] ELSE other), <<>>)

\* orElseGet that calls the supplier before looking at the receiver
orElseGet_eager(h, this, fn) ==
    LET c == Call(fn, Undefined)
    IN IF c.type = "throw" THEN Outcome(h, c, <<>>)
       ELSE Outcome(h, Return(IF isPresent(h, this) THEN h[this] ELSE c.value),
                    Invoked(fn, Undefined))

orElseGet(h, this, fn) ==
    IF isPresent(h, this)
    THEN Outcome(h, Return(h[this]), <<>>)
    ELSE Outcome(h, Call(fn, Undefined), Invoked(fn, Undefined))

\* or that guards the supplier with assertOn before calling it
or_checkedSupplier(h, this, fn) ==
    IF isPresent(h, this)
    THEN Outcome(h, Return(Ref(this)), <<>>)
    ELSE LET g == assertOn(isNullOrUndefined(fn),
                           "provided function returns null or undefined result")
         IN IF g.type = "throw" THEN Outcome(h, g, <<>>)
            ELSE LET c == Call(fn, Undefined)
                     a == assertOn(isNullOrUndefined(c.value),
                                   "provided function returns null or undefined result")
                 IN Outcome(h, IF a.type = "throw" THEN a ELSE Return(c.value),
                            Invoked(fn, Undefined))

or(h, this, fn) ==
    IF isPresent(h, this)
    THEN Outcome(h, Return(Ref(this)), <<>>)
    ELSE LET c == Call(fn, Undefined)
         IN IF c.type = "throw" THEN Outcome(h, c, <<>>)
            ELSE LET a == assertOn(isNullOrUndefined(c.value),
                                   "provided function returns null or undefined result")
                 IN Outcome(h, IF a.type = "throw" THEN a ELSE Return(c.value),
                            Invoked(fn, Undefined))

orElseThrow(h, this, fn) ==
    IF isPresent(h, this)
    THEN Outcome(h, Return(h[this]), <<>>)
    ELSE LET c == Call(fn, Undefined)
         IN Outcome(h, Throw(c.value), Invoked(fn, Undefined))

\* ------------------------------------------------------------- iteration
\* [Symbol.iterator]() is a generator function: calling it creates a
\* generator object suspended at the start of the body.
iterator(this) == [this |-> this, pc |-> "suspendedStart"]

\* next() with the cursor kept per container instead of per generator: the
\* value is yielded only while no generator of that container has moved
next_sharedCursor(h, gs, g) ==
    LET gen == gs[g]
        completed == [gen EXCEPT !.pc = "completed"]
        fresh == \A k \in DOMAIN gs : gs[k].this = gen.this => gs[k].pc = "suspendedStart"
    IN IF fresh /\ isPresent(h, gen.this)
       THEN [gen |-> [gen EXCEPT !.pc = "suspendedYield"],
             value |-> h[gen.this], done |-> FALSE]
       ELSE [gen |-> completed, value |-> Undefined, done |-> TRUE]

\* one next() on generator g of gs: the body runs to its next yield or return
next(h, gs, g) ==
    LET gen == gs[g]
        completed == [gen EXCEPT !.pc = "completed"]
    IN IF gen.pc = "suspendedStart" /\ isPresent(h, gen.this)
       THEN [gen |-> [gen EXCEPT !.pc = "suspendedYield"],
             value |-> h[gen.this], done |-> FALSE]
       ELSE [gen |-> completed, value |-> Undefined, done |-> TRUE]

\* ------------------------------------------------------------- state
VARIABLES
    heap,      \* heap[i]: the `value` slot of Optional instance i
    gens,      \* gens[g]: generator object g: its container and position
    yielded,   \* yielded[g]: the values traversal g has delivered to its loop
    last       \* the last call: operation, receiver, arguments, outcome

vars == <<heap, gens, yielded, last>>

\* `created`: how many Optional instances the call allocated
Called(op, this, fn, fn2, other, o, created) ==
    [op |-> op, this |-> this, fn |-> fn, fn2 |-> fn2, other |-> other,
     type |-> o.type, value |-> o.value, calls |-> o.calls, created |-> created]

\* a call of a factory or method completes with outcome o
Complete(op, this, fn, fn2, other, o) ==
    /\ Len(o.heap) + Len(gens) <= MaxObjects
    /\ heap' = o.heap
    /\ last' = Called(op, this, fn, fn2, other, o, Len(o.heap) - Len(heap))
    /\ UNCHANGED <<gens, yielded>>

Init ==
    /\ heap = <<>>
    /\ gens = <<>>
    /\ yielded = <<>>
    /\ last = Called("none", 0, Undefined, Undefined, Undefined,
                     Outcome(<<>>, Return(Undefined), <<>>), 0)

\* the functions callers pass
Consumers == {Const(Undefined), Undefined}
Predicates == {Const(Bool(TRUE)), Const(Bool(FALSE)), IsHello, Undefined}
Mappers == Returning(Prims) \cup {Swap}
OptionalMappers(h) == Returning({Undefined, Null, Str("set")} \cup Refs(h))
Suppliers == Returning(Prims)
OptionalSuppliers(h) == Returning({Undefined, Null, Str("set")} \cup Refs(h))
ErrorSuppliers == Returning({Error("Naughty boy"), Str("set")})

\* ------------------------------------------------------------- actions
OfNullable ==
    \E v \in Prims : Complete("ofNullable", 0, Undefined, Undefined, v, ofNullable(heap, v))

Of ==
    \E v \in Prims : Complete("of", 0, Undefined, Undefined, v, of(heap, v))

Empty ==
    Complete("empty", 0, Undefined, Undefined, Undefined, empty(heap))

Get ==
    \E this \in DOMAIN heap :
        Complete("get", this, Undefined, Undefined, Undefined, get(heap, this))

IsEmpty ==
    \E this \in DOMAIN heap :
        Complete("isEmpty", this, Undefined, Undefined, Undefined,
                 Outcome(heap, Return(Bool(isEmpty(heap, this))), <<>>))

IsPresent ==
    \E this \in DOMAIN heap :
        Complete("isPresent", this, Undefined, Undefined, Undefined,
                 Outcome(heap, Return(Bool(isPresent(heap, this))), <<>>))

IfPresent ==
    \E this \in DOMAIN heap, fn \in Consumers :
        Complete("ifPresent", this, fn, Undefined, Undefined, ifPresent(heap, this, fn))

IfPresentOrElse ==
    \E this \in DOMAIN heap, nonEmptyFn \in Consumers, emptyFn \in Consumers :
        Complete("ifPresentOrElse", this, nonEmptyFn, emptyFn, Undefined,
                 ifPresentOrElse(heap, this, nonEmptyFn, emptyFn))

Filter ==
    \E this \in DOMAIN heap, fn \in Predicates :
        Complete("filter", this, fn, Undefined, Undefined, filter(heap, this, fn))

Map ==
    \E this \in DOMAIN heap, fn \in Mappers :
        Complete("map", this, fn, Undefined, Undefined, map(heap, this, fn))

FlatMap ==
    \E this \in DOMAIN heap, fn \in OptionalMappers(heap) :
        Complete("flatMap", this, fn, Undefined, Undefined, flatMap(heap, this, fn))

OrElse ==
    \E this \in DOMAIN heap, other \in Prims :
        Complete("orElse", this, Undefined, Undefined, other, orElse(heap, this, other))

OrElseGet ==
    \E this \in DOMAIN heap, fn \in Suppliers :
        Complete("orElseGet", this, fn, Undefined, Undefined, orElseGet(heap, this, fn))

Or ==
    \E this \in DOMAIN heap, fn \in OptionalSuppliers(heap) :
        Complete("or", this, fn, Undefined, Undefined, or(heap, this, fn))

OrElseThrow ==
    \E this \in DOMAIN heap, fn \in ErrorSuppliers :
        Complete("orElseThrow", this, fn, Undefined, Undefined, orElseThrow(heap, this, fn))

\* for (... of opt): the loop asks the container for a fresh generator
Iterate ==
    \E this \in DOMAIN heap :
        /\ Len(heap) + Len(gens) < MaxObjects
        /\ gens' = Append(gens, iterator(this))
        /\ yielded' = Append(yielded, <<>>)
        /\ last' = Called("iterator", this, Undefined, Undefined, Undefined,
                          Outcome(heap, Return(Undefined), <<>>), 0)
        /\ UNCHANGED heap

\* the loop of traversal g asks for the next value; a value that is not
\* `done` is handed to the loop body
IteratorNext ==
    \E g \in DOMAIN gens :
        LET r == next(heap, gens, g)
        IN /\ gens' = [gens EXCEPT ![g] = r.gen]
           /\ yielded' = [yielded EXCEPT ![g] = IF r.done THEN @ ELSE Append(@, r.value)]
           /\ last' = Called("next", gens[g].this, Undefined, Undefined, Undefined,
                             Outcome(heap, [type |-> IF r.done THEN "return" ELSE "yield",
                                            value |-> r.value], <<>>), 0)
           /\ UNCHANGED heap

Next ==
    \/ OfNullable \/ Of \/ Empty
    \/ Get \/ IsEmpty \/ IsPresent
    \/ IfPresent \/ IfPresentOrElse
    \/ Filter \/ Map \/ FlatMap
    \/ OrElse \/ OrElseGet \/ Or \/ OrElseThrow
    \/ Iterate \/ IteratorNext

Spec == Init /\ [][Next]_vars

\* ------------------------------------------------------------- vocabulary
\* The absence marker, told by the value's type alone.
Absent(v) == v.tag \in {"null", "undefined"}

\* The error kinds: the Errors assertOn raises for a rejected argument, the
\* Error get raises, and the runtime's error for calling a non-callable.
InvalidArgument ==
    {Error("NullPointerException : value is not defined"),
     Error("Mapping function cannot return null/undefined value"),
     Error("provided function returns null or undefined result")}
NoSuchElement == {Error("Can not invoke get on Optional with null/undefined value")}
CallError == {TypeError}

Callable(fn) == fn.tag = "function"
Returned(v) == last.type = "return" /\ last.value = v
\* the call returned a reference to a container holding v
ReturnedHolding(v) ==
    /\ last.type = "return"
    /\ last.value.tag = "Optional"
    /\ last.value.ref \in DOMAIN heap
    /\ heap[last.value.ref] = v
ReturnedEmpty ==
    /\ last.type = "return"
    /\ last.value.tag = "Optional"
    /\ last.value.ref \in DOMAIN heap
    /\ isEmpty(heap, last.value.ref)
\* the call returned a container allocated by the call itself
ReturnedNew == last.created = 1 /\ last.value = Ref(Len(heap))
Threw(kind) == last.type = "throw" /\ last.value \in kind
InvokedOnceWith(fn, arg) == last.calls = <<Invocation(fn, arg)>>
NeverInvoked == last.calls = <<>>
\* the receiver's slot
held == heap[last.this]

\* ------------------------------------------------------------- claims
\* C1: of(v) fails with InvalidArgument exactly when v is null or undefined
\* and then creates no container; ofNullable(v) and empty() never fail; the
\* container created is empty exactly when v is absent (or it came from
\* empty()); get() returns the held value unchanged when present and fails
\* with NoSuchElement exactly when empty; isPresent() negates isEmpty().
C1_ConstructionGetRoundTrip ==
    /\ last.op = "of" =>
         IF Absent(last.other)
         THEN Threw(InvalidArgument) /\ last.created = 0
         ELSE ReturnedHolding(last.other) /\ ReturnedNew
              /\ isPresent(heap, last.value.ref)
    /\ last.op = "ofNullable" =>
         /\ ReturnedHolding(last.other) /\ ReturnedNew
         /\ isEmpty(heap, last.value.ref) <=> Absent(last.other)
    /\ last.op = "empty" => ReturnedEmpty /\ ReturnedNew /\ Absent(heap[last.value.ref])
    /\ last.op = "get" =>
         IF Absent(held) THEN Threw(NoSuchElement) ELSE Returned(held)
    /\ last.op = "isEmpty" => Returned(Bool(Absent(held)))
    /\ last.op = "isPresent" => Returned(Bool(~Absent(held)))

C1_Witness ==
    /\ last.op = "get" /\ last.type = "return" /\ last.value = Str("")
    /\ \E i \in DOMAIN heap : heap[i] = Null

\* C2: map over an empty container never invokes the mapper and returns an
\* empty container; over a present container holding v it invokes the mapper
\* exactly once with v and returns a new container holding the mapper's
\* result, which is empty (no error) exactly when that result is absent.
C2_Map ==
    last.op = "map" =>
        IF Absent(held)
        THEN NeverInvoked /\ ReturnedEmpty
        ELSE Callable(last.fn) =>
                /\ InvokedOnceWith(last.fn, held)
                /\ ReturnedHolding(last.fn.table[held])
                /\ isEmpty(heap, last.value.ref) <=> Absent(last.fn.table[held])

C2_Witness ==
    /\ last.op = "map" /\ ~Absent(held) /\ Callable(last.fn)
    /\ last.fn.table[held] = Null /\ ReturnedEmpty

\* C3: filter over an empty container never invokes the predicate and
\* returns the receiver itself; over a present container holding v it invokes
\* the predicate exactly once with v and returns a present container holding
\* v when the predicate is true, an empty container when it is false.
C3_Filter ==
    last.op = "filter" =>
        IF Absent(held)
        THEN NeverInvoked /\ Returned(Ref(last.this)) /\ last.created = 0
        ELSE Callable(last.fn) =>
                /\ InvokedOnceWith(last.fn, held)
                /\ last.fn.table[held] = Bool(TRUE) =>
                       ReturnedHolding(held) /\ isPresent(heap, last.value.ref)
                /\ last.fn.table[held] = Bool(FALSE) => ReturnedEmpty

C3_Witness ==
    /\ last.op = "filter" /\ Absent(held) /\ Callable(last.fn)
    /\ Returned(Ref(last.this))

\* C4: flatMap over an empty container never invokes the mapper and returns
\* an empty container; over a present container holding v it invokes the
\* mapper exactly once with v, fails with InvalidArgument when the mapper's
\* result is absent, and otherwise returns the mapper's result as it is (an
\* empty container included), allocating nothing.
C4_FlatMap ==
    last.op = "flatMap" =>
        IF Absent(held)
        THEN NeverInvoked /\ ReturnedEmpty
        ELSE Callable(last.fn) =>
                /\ InvokedOnceWith(last.fn, held)
                /\ IF Absent(last.fn.table[held])
                   THEN Threw(InvalidArgument)
                   ELSE Returned(last.fn.table[held])
                /\ last.created = 0

C4_Witness ==
    /\ last.op = "flatMap" /\ ~Absent(held) /\ Callable(last.fn)
    /\ ReturnedEmpty /\ last.value = last.fn.table[held]

\* C5 as stated: or on a present container returns the receiver without
\* invoking or validating the supplier; on an empty container it invokes the
\* supplier once and returns its result, and fails with InvalidArgument both
\* when no supplier is provided and when the supplier returns an absent value.
C5_OrAsStated ==
    last.op = "or" =>
        IF ~Absent(held)
        THEN NeverInvoked /\ Returned(Ref(last.this))
        ELSE IF Callable(last.fn)
             THEN /\ InvokedOnceWith(last.fn, Undefined)
                  /\ IF Absent(last.fn.table[Undefined])
                     THEN Threw(InvalidArgument)
                     ELSE Returned(last.fn.table[Undefined])
             ELSE Threw(InvalidArgument)

\* C5 amended: as stated, except that with no supplier provided the call on
\* an empty container fails with the call-error of calling a non-callable,
\* not with InvalidArgument.
C5_Or ==
    last.op = "or" =>
        IF ~Absent(held)
        THEN NeverInvoked /\ Returned(Ref(last.this))
        ELSE IF Callable(last.fn)
             THEN /\ InvokedOnceWith(last.fn, Undefined)
                  /\ IF Absent(last.fn.table[Undefined])
                     THEN Threw(InvalidArgument)
                     ELSE Returned(last.fn.table[Undefined])
             ELSE Threw(CallError) /\ ~Threw(InvalidArgument) /\ NeverInvoked

C5_Witness ==
    last.op = "or" /\ Absent(held) /\ ~Callable(last.fn) /\ last.type = "throw"

\* C6 as stated: ifPresent fails with InvalidArgument whenever the consumer
\* is missing, on a present and on an empty container alike; with a consumer
\* it invokes it exactly once with the held value when present and does
\* nothing when empty.
C6_IfPresentAsStated ==
    last.op = "ifPresent" =>
        IF ~Callable(last.fn)
        THEN Threw(InvalidArgument)
        ELSE IF Absent(held)
             THEN NeverInvoked /\ Returned(Undefined)
             ELSE InvokedOnceWith(last.fn, held) /\ Returned(Undefined)

\* C6 amended: with the consumer missing, ifPresent fails only on a present
\* container, and with the call-error of calling a non-callable; on an empty
\* container it returns without error.  With a consumer: as stated.
C6_IfPresent ==
    last.op = "ifPresent" =>
        IF Absent(held)
        THEN NeverInvoked /\ Returned(Undefined)
        ELSE IF Callable(last.fn)
             THEN InvokedOnceWith(last.fn, held) /\ Returned(Undefined)
             ELSE Threw(CallError) /\ NeverInvoked

C6_Witness ==
    last.op = "ifPresent" /\ Absent(held) /\ ~Callable(last.fn) /\ Returned(Undefined)

\* C7: on a present container holding v, orElse, orElseGet and orElseThrow
\* return v and invoke nothing, also when the function argument is missing;
\* on an empty container orElse returns `other`, orElseGet invokes the
\* supplier once and returns its result (a call-error when it is missing),
\* and orElseThrow invokes the error supplier once and throws exactly what it
\* returned.
C7_Fallbacks ==
    /\ last.op = "orElse" =>
         NeverInvoked /\ Returned(IF Absent(held) THEN last.other ELSE held)
    /\ last.op = "orElseGet" =>
         IF ~Absent(held) THEN NeverInvoked /\ Returned(held)
         ELSE IF Callable(last.fn)
              THEN InvokedOnceWith(last.fn, Undefined)
                   /\ Returned(last.fn.table[Undefined])
              ELSE Threw(CallError) /\ NeverInvoked
    /\ last.op = "orElseThrow" =>
         IF ~Absent(held) THEN NeverInvoked /\ Returned(held)
         ELSE Callable(last.fn) =>
                 /\ InvokedOnceWith(last.fn, Undefined)
                 /\ last.type = "throw"
                 /\ last.value = last.fn.table[Undefined]

C7_Witness ==
    /\ last.op = "orElseGet" /\ ~Absent(held) /\ ~Callable(last.fn)
    /\ Returned(held)

\* C8: every traversal of a present container delivers exactly the held
\* value and then ends, every traversal of an empty container ends having
\* delivered nothing, whatever other traversals of the same container have
\* done: a traversal that has not started has delivered nothing and its next
\* step delivers the value or ends; one that has delivered the value ends at
\* its next step; one that has ended has delivered the value once, or nothing.
C8_Iteration ==
    \A g \in DOMAIN gens :
        LET v == heap[gens[g].this]
            step == next(heap, gens, g)
        IN /\ gens[g].pc = "suspendedStart" =>
                /\ yielded[g] = <<>>
                /\ IF Absent(v) THEN step.done
                   ELSE ~step.done /\ step.value = v
           /\ gens[g].pc = "suspendedYield" =>
                ~Absent(v) /\ yielded[g] = <<v>> /\ step.done
           /\ gens[g].pc = "completed" =>
                /\ yielded[g] = IF Absent(v) THEN <<>> ELSE <<v>>
                /\ step.done

\* the second traversal of a present container ran to its end while the
\* first one, started before it, is still partway through
C8_Witness ==
    /\ Len(gens) >= 2
    /\ gens[1].this = gens[2].this /\ ~Absent(heap[gens[1].this])
    /\ gens[1].pc = "suspendedYield" /\ gens[2].pc = "completed"

\* C9: no call, failing calls included, changes the slot of an existing
\* container: every container keeps the value it was constructed with.
C9_Immutable ==
    [][\A i \in DOMAIN heap : i \in DOMAIN heap' /\ heap'[i] = heap[i]]_vars

\* a filter whose predicate failed: the result is empty, the receiver present
C9_Witness ==
    /\ last.op = "filter" /\ ~Absent(held) /\ ReturnedEmpty
    /\ last.value # Ref(last.this)

\* C10: or on an empty container with a supplier that returns the plain
\* value "set" returns an Optional whose get() returns "set".
C10_OrReturnsOptional ==
    (/\ last.op = "or" /\ Absent(held) /\ Callable(last.fn)
     /\ last.fn.table[Undefined] = Str("set"))
    => /\ last.type = "return"
       /\ last.value.tag = "Optional"
       /\ get(heap, last.value.ref).type = "return"
       /\ get(heap, last.value.ref).value = Str("set")

=============================================================================
